---- MODULE Spec2Model ----
\* Model of django-codegen's `model` command (src/django_codegen/generate.py)
\* and of its generators (src/django_codegen/lib/codegen.py).
\*
\* Text.  A Python str is a sequence of atoms.  The atoms ":" and "=" are the
\* two separator characters; every other atom stands for a maximal run of
\* characters that holds neither.  "title:CharField:max_length=5" is
\* <<"title", ":", "CharField", ":", "max_length", "=", "5">>.
\* A Python value that is a str or an int is a record (StrV / IntV).
EXTENDS Integers, Sequences, FiniteSets, TLC

\* ------------------------------------------------------------------ bounds
\* At most MaxFields field definitions per request, at most MaxArgs raw
\* arguments over all the definitions of a request.
MaxFields == 2
MaxArgs == 1

\* ------------------------------------------------------------------ text
S(x) == <<x>>

StrV(s) == [t |-> "str", s |-> s, n |-> 0]
IntV(n) == [t |-> "int", s |-> <<>>, n |-> n]

\* str(value), as str.format and the templates apply it.
Str(v) == IF v.t = "int" THEN S(ToString(v.n)) ELSE v.s

\* The chunks that are decimal literals.
Decimals == {ToString(n) : n \in 0..300}

\* int(value) returns (TRUE) or raises ValueError (FALSE).  The input
\* alphabet has no whitespace, sign or underscore, so a str converts exactly
\* when it is one decimal chunk.
IntConverts(v) == v.t = "int" \/ (Len(v.s) = 1 /\ v.s[1] \in Decimals)

\* str.split(sep): every occurrence of sep cuts; n separators give n+1 pieces.
RECURSIVE Split(_, _)
Split(s, sep) ==
    IF \A i \in 1..Len(s) : s[i] # sep
    THEN <<s>>
    ELSE LET i == CHOOSE k \in 1..Len(s) :
                      s[k] = sep /\ \A j \in 1..(k - 1) : s[j] # sep
         IN  <<SubSeq(s, 1, i - 1)>> \o Split(SubSeq(s, i + 1, Len(s)), sep)

RECURSIVE Join(_, _)
Join(parts, sep) ==
    IF parts = <<>> THEN <<>>
    ELSE IF Len(parts) = 1 THEN parts[1]
    ELSE parts[1] \o sep \o Join(Tail(parts), sep)

\* ------------------------------------------------------------------ registry
\* argument_map: key -> format string; "{value}" is the replacement field.
argument_map ==
    [k \in {S("null"), S("blank"), S("max_length"), S("default"), S("to")} |->
        CASE k = S("null") -> <<"null", "=", "True">>
          [] k = S("blank") -> <<"blank", "=", "True">>
          [] k = S("max_length") -> <<"max_length", "=", "{value}">>
          [] k = S("default") -> <<"default", "=", "{value}">>
          [] k = S("to") -> <<"to", "=", "'", "{value}", "'">>]

\* str.format(value=v): one pass over the format string; the text put in is
\* not scanned again.
RECURSIVE Format(_, _)
Format(fmt, v) ==
    IF fmt = <<>> THEN <<>>
    ELSE (IF fmt[1] = "{value}" THEN Str(v) ELSE S(fmt[1])) \o Format(Tail(fmt), v)

\* The three shapes of required_arguments.
NoRequirement == <<>>
MaxLengthRequirement ==
    <<[kind |-> "tuple", name |-> S("max_length"), typ |-> "int", default |-> IntV(250)]>>
ToRequirement ==
    <<[kind |-> "str", name |-> S("to"), typ |-> "", default |-> IntV(0)]>>

\* The type tags in the order the module registers them.
RegistryKeys ==
    << "BigIntegerField", "BinaryField", "BooleanField", "CharField",
       "DateField", "DateTimeField", "DecimalField", "DurationField",
       "EmailField", "FileField", "FilePathField", "FloatField", "ImageField",
       "IntegerField", "GenericIPAddressField", "NullBooleanField",
       "PositiveIntegerField", "PositiveSmallIntegerField", "SlugField",
       "SmallAutoField", "SmallIntegerField", "TextField", "TimeField",
       "URLField", "UUIDField", "ForeignKey", "OneToOneField",
       "ManyToManyField" >>

FIELD_GENERATOR_REGISTRY ==
    [k \in {S(RegistryKeys[i]) : i \in 1..Len(RegistryKeys)} |->
        [name |-> k,
         required_arguments |->
            IF k = S("CharField") THEN MaxLengthRequirement
            ELSE IF k \in {S("ForeignKey"), S("OneToOneField"), S("ManyToManyField")}
                 THEN ToRequirement
                 ELSE NoRequirement]]

\* ------------------------------------------------------------------ exceptions
\* A raised Python exception: its class and the pieces of its message.
NoExc == [type |-> "", msg |-> <<>>]
Raise(type, msg) == [type |-> type, msg |-> msg]

\* ------------------------------------------------------------------ dict
\* A dict is the sequence of its items in insertion order; assigning to a key
\* it holds replaces the value in place.
DictHas(d, k) == \E i \in 1..Len(d) : d[i].key = k
DictGet(d, k) == d[CHOOSE i \in 1..Len(d) : d[i].key = k].value
DictSet(d, k, v) ==
    IF DictHas(d, k)
    THEN [i \in 1..Len(d) |-> IF d[i].key = k THEN [key |-> k, value |-> v] ELSE d[i]]
    ELSE Append(d, [key |-> k, value |-> v])

\* ------------------------------------------------------------------ FieldGenerator
\* _parse_arguments, the loop over the raw arguments (codegen.py 84-89).
\* A raw argument without "=" is looked up in argument_map with no guard.
RECURSIVE collect_arguments(_, _)
collect_arguments(arguments, all_arguments) ==
    IF arguments = <<>>
    THEN [ok |-> TRUE, exc |-> NoExc, all_arguments |-> all_arguments]
    ELSE LET argument == Head(arguments)
             argument_split == Split(argument, "=")
         IN  IF Len(argument_split) = 1
             THEN IF argument \notin DOMAIN argument_map
                  THEN [ok |-> FALSE, exc |-> Raise("KeyError", argument),
                        all_arguments |-> all_arguments]
                  ELSE collect_arguments(
                           Tail(arguments),
                           DictSet(all_arguments, argument_split[1],
                                   StrV(argument_map[argument])))
             ELSE collect_arguments(
                      Tail(arguments),
                      DictSet(all_arguments, argument_split[1],
                              StrV(argument_split[2])))

\* Variant of check_required: the typ(...) conversion left out.
RECURSIVE check_required_unconverted(_, _)
check_required_unconverted(required_arguments, all_arguments) ==
    IF required_arguments = <<>>
    THEN [ok |-> TRUE, exc |-> NoExc, all_arguments |-> all_arguments]
    ELSE IF Head(required_arguments).kind = "str"
         THEN IF ~DictHas(all_arguments, Head(required_arguments).name)
              THEN [ok |-> FALSE,
                    exc |-> Raise("Exception",
                                  Head(required_arguments).name \o <<" is required">>),
                    all_arguments |-> all_arguments]
              ELSE check_required_unconverted(Tail(required_arguments), all_arguments)
         ELSE check_required_unconverted(
                  Tail(required_arguments),
                  IF DictHas(all_arguments, Head(required_arguments).name)
                  THEN all_arguments
                  ELSE DictSet(all_arguments, Head(required_arguments).name,
                               Head(required_arguments).default))

\* _parse_arguments, the loop over required_arguments (codegen.py 91-106).
RECURSIVE check_required(_, _)
check_required(required_arguments, all_arguments) ==
    IF required_arguments = <<>>
    THEN [ok |-> TRUE, exc |-> NoExc, all_arguments |-> all_arguments]
    ELSE LET argument == Head(required_arguments)
         IN  IF argument.kind = "str"
             THEN IF ~DictHas(all_arguments, argument.name)
                  THEN [ok |-> FALSE,
                        exc |-> Raise("Exception", argument.name \o <<" is required">>),
                        all_arguments |-> all_arguments]
                  ELSE check_required(Tail(required_arguments), all_arguments)
             ELSE LET filled == IF DictHas(all_arguments, argument.name)
                                THEN all_arguments
                                ELSE DictSet(all_arguments, argument.name,
                                             argument.default)
                  IN  IF ~IntConverts(DictGet(filled, argument.name))
                      THEN [ok |-> FALSE,
                            exc |-> Raise("TypeError",
                                          <<"\"('">> \o argument.name
                                          \o <<"', <class '", argument.typ, "'>, ">>
                                          \o Str(argument.default)
                                          \o <<")\" should be of type \"",
                                               argument.typ, "\"">>),
                            all_arguments |-> filled]
                      ELSE check_required(Tail(required_arguments), filled)

\* _parse_arguments, the final list (codegen.py 108-111): argument_map.get(key)
\* is None for a key the map lacks, and None has no format.
format_item(item, rest) ==
    IF ~rest.ok THEN rest
    ELSE [ok |-> TRUE, exc |-> NoExc,
          parsed |-> <<Format(argument_map[item.key], item.value)>> \o rest.parsed]

RECURSIVE format_arguments(_)
format_arguments(all_arguments) ==
    IF all_arguments = <<>>
    THEN [ok |-> TRUE, exc |-> NoExc, parsed |-> <<>>]
    ELSE IF Head(all_arguments).key \notin DOMAIN argument_map
         THEN [ok |-> FALSE,
               exc |-> Raise("AttributeError",
                             <<"'NoneType' object has no attribute 'format'">>),
               parsed |-> <<>>]
         ELSE format_item(Head(all_arguments), format_arguments(Tail(all_arguments)))

\* _parse_arguments after the loop over required_arguments.
format_required(required) ==
    IF ~required.ok
    THEN [ok |-> FALSE, exc |-> required.exc, parsed |-> <<>>]
    ELSE format_arguments(required.all_arguments)

\* _parse_arguments after the loop over the raw arguments.
check_collected(generator, collected) ==
    IF ~collected.ok
    THEN [ok |-> FALSE, exc |-> collected.exc, parsed |-> <<>>]
    ELSE format_required(check_required(generator.required_arguments,
                                        collected.all_arguments))

\* FieldGenerator._parse_arguments.
parse_arguments(generator, arguments) ==
    check_collected(generator, collect_arguments(arguments, <<>>))

\* FieldGenerator.render's template: "name = models.Type(arg, arg)".
field_template(generator, field_name, parsed_arguments) ==
    IF ~parsed_arguments.ok
    THEN [ok |-> FALSE, exc |-> parsed_arguments.exc, text |-> <<>>]
    ELSE [ok |-> TRUE, exc |-> NoExc,
          text |-> field_name \o <<" = models.">> \o generator.name \o <<"(">>
                   \o Join(parsed_arguments.parsed, <<", ">>) \o <<")">>]

\* FieldGenerator.render.
field_render(generator, field_name, arguments) ==
    field_template(generator, field_name, parse_arguments(generator, arguments))

\* ------------------------------------------------------------------ ModelGenerator
\* A parsed definition is the triple <<field_name, class_name, arguments>>.
\* get_fields: the registry lookup has no guard.  `calls` counts the
\* FieldGenerator.render calls made; `field_definitions` is the list as the
\* loop leaves it (it only reads it).
RECURSIVE get_fields_from(_, _, _, _)
\* Variant of append_field: a field whose rendering fails is left out.
append_field_skipping(registry, field_definitions, i, fields, rendered) ==
    IF ~rendered.ok
    THEN get_fields_from(registry, field_definitions, i + 1, fields)
    ELSE get_fields_from(registry, field_definitions, i + 1,
                         Append(fields, rendered.text))

append_field(registry, field_definitions, i, fields, rendered) ==
    IF ~rendered.ok
    THEN [ok |-> FALSE, exc |-> rendered.exc, fields |-> <<>>, calls |-> i,
          field_definitions |-> field_definitions]
    ELSE get_fields_from(registry, field_definitions, i + 1,
                         Append(fields, rendered.text))

get_fields_from(registry, field_definitions, i, fields) ==
    IF i > Len(field_definitions)
    THEN [ok |-> TRUE, exc |-> NoExc, fields |-> fields, calls |-> i - 1,
          field_definitions |-> field_definitions]
    ELSE IF field_definitions[i][2] \notin DOMAIN registry
         THEN [ok |-> FALSE, exc |-> Raise("KeyError", field_definitions[i][2]),
               fields |-> <<>>, calls |-> i - 1,
               field_definitions |-> field_definitions]
         ELSE append_field(registry, field_definitions, i, fields,
                           field_render(registry[field_definitions[i][2]],
                                        field_definitions[i][1],
                                        field_definitions[i][3]))

\* Variant of get_fields: each definition's argument list is emptied as it
\* is read.
get_fields_consuming(registry, field_definitions) ==
    [get_fields_from(registry, field_definitions, 1, <<>>)
        EXCEPT !.field_definitions =
            [i \in 1..Len(field_definitions) |->
                <<field_definitions[i][1], field_definitions[i][2], <<>>>>]]

get_fields(registry, field_definitions) ==
    get_fields_from(registry, field_definitions, 1, <<>>)

\* ModelGenerator.template rendered with a context: the text as its lines.
\* `{%-` eats the line break before the if/endif tags; the for block leaves
\* its own indentation lines.
Indent == <<"    ">>

RECURSIVE field_lines(_)
field_lines(fields) ==
    IF fields = <<>> THEN <<>>
    ELSE <<Indent \o Head(fields), Indent>> \o field_lines(Tail(fields))

template_render(model_name, fields, ordering) ==
    << <<"class ">> \o model_name \o <<"(models.Model):">>,
       <<"    class Meta:">>,
       <<"        verbose_name = \"">> \o model_name \o <<"\"">>,
       <<"        verbose_name_plural = \"">> \o model_name \o <<"s\"">> >>
    \o (IF ordering # <<>>
        THEN << <<"        ordering = \"">> \o ordering \o <<"\"">> >>
        ELSE <<>>)
    \o <<Indent>> \o field_lines(fields) \o <<Indent>>

\* ModelGenerator.get_context, then the template.
render_context(generator, got) ==
    IF ~got.ok
    THEN [ok |-> FALSE, exc |-> got.exc, text |-> <<>>, calls |-> got.calls,
          field_definitions |-> got.field_definitions]
    ELSE [ok |-> TRUE, exc |-> NoExc,
          text |-> template_render(generator.model_name, got.fields,
                                   generator.ordering),
          calls |-> got.calls,
          field_definitions |-> got.field_definitions]

\* BaseGenerator.render on a ModelGenerator.
render(registry, generator) ==
    render_context(generator, get_fields(registry, generator.field_definitions))

\* str.lower() on the model names in play.
Lower(name) == IF name = S("Post") THEN S("post") ELSE name

\* ModelGenerator.check after django.setup(): "ok" or the exception raised.
\* app_configs maps an app label to the lower-cased names of its models.
check(app_configs, generator) ==
    IF generator.app_name \notin DOMAIN app_configs
    THEN Raise("AppDoesNotExist",
               <<"There is no app named ">> \o generator.app_name \o <<".">>)
    ELSE IF Lower(generator.model_name) \in app_configs[generator.app_name]
         THEN Raise("ModelAlreadyExists",
                    <<"The app '">> \o generator.app_name
                    \o <<"' already has a model called ">>
                    \o generator.model_name \o <<".">>)
         ELSE NoExc

\* What write_model appends: f"\n\n{self.render()}".
written_text(text) == << <<>>, <<>> >> \o text

\* ------------------------------------------------------------------ generate.py
\* parse_field_definitions: the first definition with fewer than two
\* segments ends the command; otherwise one triple per definition.
\* Variant of parse_field_definitions_from: a definition already parsed is
\* not appended again.
RECURSIVE parse_field_definitions_dedup(_, _)
parse_field_definitions_dedup(field_definitions, parsed_field_definitions) ==
    IF field_definitions = <<>>
    THEN [ok |-> TRUE, parsed |-> parsed_field_definitions, definition |-> <<>>]
    ELSE IF ~(Len(Split(Head(field_definitions), ":")) >= 2)
         THEN [ok |-> FALSE, parsed |-> <<>>, definition |-> Head(field_definitions)]
         ELSE parse_field_definitions_dedup(
                  Tail(field_definitions),
                  IF \E k \in 1..Len(parsed_field_definitions) :
                         parsed_field_definitions[k][1]
                             = Split(Head(field_definitions), ":")[1]
                  THEN parsed_field_definitions
                  ELSE Append(parsed_field_definitions,
                              <<Split(Head(field_definitions), ":")[1],
                                Split(Head(field_definitions), ":")[2],
                                SubSeq(Split(Head(field_definitions), ":"), 3,
                                       Len(Split(Head(field_definitions), ":")))>>))

RECURSIVE parse_field_definitions_from(_, _)
parse_field_definitions_from(field_definitions, parsed_field_definitions) ==
    IF field_definitions = <<>>
    THEN [ok |-> TRUE, parsed |-> parsed_field_definitions, definition |-> <<>>]
    ELSE LET definition == Head(field_definitions)
             deconstructed == Split(definition, ":")
         IN  IF ~(Len(deconstructed) >= 2)
             THEN [ok |-> FALSE, parsed |-> <<>>, definition |-> definition]
             ELSE parse_field_definitions_from(
                      Tail(field_definitions),
                      Append(parsed_field_definitions,
                             <<deconstructed[1], deconstructed[2],
                               SubSeq(deconstructed, 3, Len(deconstructed))>>))

parse_field_definitions(field_definitions) ==
    parse_field_definitions_from(field_definitions, <<>>)

\* ------------------------------------------------------------------ inputs
FieldNames == {"title"}
TypeTags == {"CharField", "IntegerField", "ForeignKey", "Foo"}
RawArguments ==
    { <<"null">>, <<"foo">>,
      <<"max_length", "=", "5">>, <<"max_length", "=", "abc">>,
      <<"max_length", "=", "5", "=", "abc">>,
      <<"to", "=", "Author">>, <<"default", "=", "a", "=", "b">>,
      <<"foo", "=", "1">> }

\* The raw argument lists of exactly n arguments.
RECURSIVE ArgumentLists(_)
ArgumentLists(n) ==
    IF n = 0 THEN {<<>>}
    ELSE {<<a>> \o rest : a \in RawArguments, rest \in ArgumentLists(n - 1)}

\* The definition strings with exactly n raw arguments: name:type[:arg]*,
\* and, with none, the strings that have no type segment.
DefinitionsWith(n) ==
    { Join(<<S(name), S(tag)>> \o arguments, <<":">>) :
          name \in FieldNames, tag \in TypeTags, arguments \in ArgumentLists(n) }
    \cup (IF n = 0 THEN {S(name) : name \in FieldNames} ELSE {})

\* The command lines of at most f definitions holding at most a raw
\* arguments in all.
RECURSIVE CommandLines(_, _)
CommandLines(f, a) ==
    IF f = 0 THEN {<<>>}
    ELSE {<<>>} \cup UNION { { <<d>> \o rest : d \in DefinitionsWith(used),
                                               rest \in CommandLines(f - 1, a - used) }
                             : used \in 0..a }

\* The Django project the command runs in: app label -> lower-cased model names.
Projects ==
    { [a \in {} |-> {}], [a \in {S("blog")} |-> {}],
      [a \in {S("blog")} |-> {S("post")}] }

\* What the user types at the interactive prompts.
PromptedNames == {<<>>, S("title")}
Choices == {3, 25, 28}

\* ------------------------------------------------------------------ state
VARIABLES
    pc,            \* where model() is
    argv,          \* the field-definition strings of the command line
    ordering,      \* --ordering; <<>> when not given
    project,       \* the project on disk
    registry,      \* FIELD_GENERATOR_REGISTRY
    fields,        \* collect's `definitions`, then the generator's field_definitions
    field_name,    \* collect's pending field name
    app_configs,   \* django.apps.apps.app_configs; empty before django.setup()
    environ,       \* os.environ["DJANGO_SETTINGS_MODULE"]; <<>> when unset
    echoed,        \* the messages typer.echo / typer.secho printed, in order
    shown,         \* what print_code displayed: <<>> or <<text>>
    calls,         \* FieldGenerator.render calls made by model()'s render()
    confirmation,  \* the answer to "Is this what you want?": <<>> or <<answer>>
    models_file,   \* the texts appended to the app's models file, in order
    reformatted,   \* format_file_in_place has rewritten the file
    uncaught,      \* the exception that left model(), or NoExc
    exit_code      \* the process exit code; -1 while running

vars == <<pc, argv, ordering, project, registry, fields, field_name, app_configs,
          environ, echoed, shown, calls, confirmation, models_file, reformatted,
          uncaught, exit_code>>

app_name == S("blog")
model_name == S("Post")
django_settings == S("config.settings")

\* The ModelGenerator built at generate.py 104-110.
generator ==
    [app_name |-> app_name, model_name |-> model_name,
     field_definitions |-> fields, ordering |-> ordering,
     django_settings |-> django_settings]

Init ==
    /\ pc = "start"
    /\ argv \in CommandLines(MaxFields, MaxArgs)
    /\ ordering \in {<<>>, S("title")}
    /\ project \in Projects
    /\ registry = FIELD_GENERATOR_REGISTRY
    /\ fields = <<>>
    /\ field_name = <<>>
    /\ app_configs = [a \in {} |-> {}]
    /\ environ = <<>>
    /\ echoed = <<>>
    /\ shown = <<>>
    /\ calls = 0
    /\ confirmation = <<>>
    /\ models_file = <<>>
    /\ reformatted = FALSE
    /\ uncaught = NoExc
    /\ exit_code = -1

\* raise typer.Exit(code=1) after echoing a message.
Exit1(message) ==
    /\ echoed' = Append(echoed, message)
    /\ exit_code' = 1
    /\ pc' = "exit"

\* An exception no handler of model() catches: traceback, exit code 1.
Crash(exc) ==
    /\ uncaught' = exc
    /\ exit_code' = 1
    /\ pc' = "crash"

\* generate.py 99-102 with field definitions on the command line.
Parsed(parsed) ==
    IF parsed.ok
    THEN /\ fields' = parsed.parsed
         /\ pc' = "check"
         /\ UNCHANGED <<echoed, exit_code>>
    ELSE /\ Exit1(<<"\"">> \o parsed.definition
                  \o <<"\" is not a valid field definition">>)
         /\ UNCHANGED fields

ParseFieldDefinitions ==
    /\ pc = "start"
    /\ argv # <<>>
    /\ Parsed(parse_field_definitions(argv))
    /\ UNCHANGED <<argv, ordering, project, registry, field_name, app_configs,
                   environ, shown, calls, confirmation, models_file,
                   reformatted, uncaught>>

\* generate.py 99-100 without: collect_field_definitions starts prompting.
StartCollect ==
    /\ pc = "start"
    /\ argv = <<>>
    /\ pc' = "field_name"
    /\ UNCHANGED <<argv, ordering, project, registry, fields, field_name,
                   app_configs, environ, echoed, shown, calls, confirmation,
                   models_file, reformatted, uncaught, exit_code>>

\* collect_field_definitions 50-55: an empty name ends the loop.
PromptFieldName ==
    /\ pc = "field_name"
    /\ \E name \in PromptedNames :
          IF name = <<>>
          THEN /\ pc' = "check"
               /\ UNCHANGED field_name
          ELSE /\ Len(fields) < MaxFields
               /\ field_name' = name
               /\ pc' = "pick_one"
    /\ UNCHANGED <<argv, ordering, project, registry, fields, app_configs,
                   environ, echoed, shown, calls, confirmation, models_file,
                   reformatted, uncaught, exit_code>>

\* collect_field_definitions 58-66: an index outside the list asks again.
PickOne ==
    /\ pc = "pick_one"
    /\ \E choice \in Choices :
          IF choice < Len(RegistryKeys)
          THEN /\ fields' = Append(fields, <<field_name, S(RegistryKeys[choice + 1]), <<>>>>)
               /\ pc' = "field_name"
          ELSE UNCHANGED <<fields, pc>>
    /\ UNCHANGED <<argv, ordering, project, registry, field_name, app_configs,
                   environ, echoed, shown, calls, confirmation, models_file,
                   reformatted, uncaught, exit_code>>

\* generate.py 112-116: generator.check().
Checked(exc) ==
    IF exc = NoExc
    THEN /\ pc' = "render"
         /\ UNCHANGED <<echoed, exit_code>>
    ELSE Exit1(exc.msg)

Check ==
    /\ pc = "check"
    /\ environ' = IF environ = <<>> THEN django_settings ELSE environ
    /\ app_configs' = project
    /\ Checked(check(project, generator))
    /\ UNCHANGED <<argv, ordering, project, registry, fields, field_name, shown,
                   calls, confirmation, models_file, reformatted, uncaught>>

\* generate.py 118-126: generator.render(), then the text is displayed.  Only
\* TypeError is handled.
Rendered(rendered) ==
    /\ calls' = rendered.calls
    /\ fields' = rendered.field_definitions
    /\ IF rendered.ok
       THEN /\ echoed' = Append(echoed, <<"# App name: ">> \o app_name)
            /\ shown' = <<rendered.text>>
            /\ pc' = "confirm"
            /\ UNCHANGED <<uncaught, exit_code>>
       ELSE IF rendered.exc.type = "TypeError"
            THEN /\ Exit1(rendered.exc.msg)
                 /\ UNCHANGED <<shown, uncaught>>
            ELSE /\ Crash(rendered.exc)
                 /\ UNCHANGED <<shown, echoed>>

Render ==
    /\ pc = "render"
    /\ Rendered(render(registry, generator))
    /\ UNCHANGED <<argv, ordering, project, registry, field_name, app_configs,
                   environ, confirmation, models_file, reformatted>>

\* Variant of Confirm: write_model is reached whatever the answer.
Confirm_unconditional ==
    /\ pc = "confirm"
    /\ \E answer \in BOOLEAN :
          /\ confirmation' = <<answer>>
          /\ pc' = "write"
          /\ UNCHANGED exit_code
    /\ UNCHANGED <<argv, ordering, project, registry, fields, field_name,
                   app_configs, environ, echoed, shown, calls, models_file,
                   reformatted, uncaught>>

\* generate.py 128-129: typer.confirm.
Confirm ==
    /\ pc = "confirm"
    /\ \E answer \in BOOLEAN :
          /\ confirmation' = <<answer>>
          /\ IF answer
             THEN pc' = "write" /\ UNCHANGED exit_code
             ELSE pc' = "done" /\ exit_code' = 0
    /\ UNCHANGED <<argv, ordering, project, registry, fields, field_name,
                   app_configs, environ, echoed, shown, calls, models_file,
                   reformatted, uncaught>>

\* generate.py 130: generator.write_model() renders again, appends, and has
\* black rewrite the file; black may reject the file.
Written(rendered) ==
    /\ fields' = rendered.field_definitions
    /\ IF rendered.ok
       THEN /\ models_file' = Append(models_file, written_text(rendered.text))
            /\ \E formatted \in BOOLEAN :
                  IF formatted
                  THEN /\ reformatted' = TRUE
                       /\ pc' = "done"
                       /\ exit_code' = 0
                       /\ UNCHANGED uncaught
                  ELSE /\ Crash(Raise("InvalidInput", <<>>))
                       /\ UNCHANGED reformatted
       ELSE /\ Crash(rendered.exc)
            /\ UNCHANGED <<models_file, reformatted>>

WriteModel ==
    /\ pc = "write"
    /\ Written(render(registry, generator))
    /\ UNCHANGED <<argv, ordering, project, registry, field_name, app_configs,
                   environ, echoed, shown, calls, confirmation>>

Next ==
    \/ ParseFieldDefinitions
    \/ StartCollect
    \/ PromptFieldName
    \/ PickOne
    \/ Check
    \/ Render
    \/ Confirm
    \/ WriteModel

Spec == Init /\ [][Next]_vars

\* ------------------------------------------------------------------ the DSL, as the specification words it
\* These read a definition string directly; they use none of the operators
\* that model the generators.
Segments(definition) == Split(definition, ":")
IsMalformed(definition) == Len(Segments(definition)) < 2
NameOf(definition) == Segments(definition)[1]
TagOf(definition) == Segments(definition)[2]
ArgsOf(definition) == SubSeq(Segments(definition), 3, Len(Segments(definition)))

HasEq(a) == \E k \in 1..Len(a) : a[k] = "="
FirstEq(a) == CHOOSE k \in 1..Len(a) : a[k] = "=" /\ \A j \in 1..(k - 1) : a[j] # "="
KeyOf(a) == IF HasEq(a) THEN SubSeq(a, 1, FirstEq(a) - 1) ELSE a
AfterFirstEq(a) == SubSeq(a, FirstEq(a) + 1, Len(a))
\* The text between the first "=" and the second (or the end).
UpToSecondEq(a) ==
    IF HasEq(AfterFirstEq(a))
    THEN SubSeq(AfterFirstEq(a), 1, FirstEq(AfterFirstEq(a)) - 1)
    ELSE AfterFirstEq(a)

Supplied(args, key) == \E j \in 1..Len(args) : KeyOf(args[j]) = key
LastSupplied(args, key) ==
    args[CHOOSE j \in 1..Len(args) :
             KeyOf(args[j]) = key /\ \A k \in (j + 1)..Len(args) : KeyOf(args[k]) # key]
IsDecimalText(s) == Len(s) = 1 /\ s[1] \in Decimals

KnownKeys == {S("null"), S("blank"), S("max_length"), S("default"), S("to")}
ToTypes == {S("ForeignKey"), S("OneToOneField"), S("ManyToManyField")}
IsKnownType(tag) == \E i \in 1..Len(RegistryKeys) : tag = S(RegistryKeys[i])

BareUnsupported(args) == \E j \in 1..Len(args) : ~HasEq(args[j]) /\ args[j] \notin KnownKeys
UnsupportedArgument(args) == \E j \in 1..Len(args) : KeyOf(args[j]) \notin KnownKeys
MissingRequiredArgument(tag, args) == tag \in ToTypes /\ ~Supplied(args, S("to"))
\* The value held for max_length is the last one supplied; a bare keyword
\* holds its format string, a key=value the text up to a second "=".
ArgumentTypeMismatch(tag, args) ==
    /\ tag = S("CharField")
    /\ Supplied(args, S("max_length"))
    /\ \/ ~HasEq(LastSupplied(args, S("max_length")))
       \/ ~IsDecimalText(UpToSecondEq(LastSupplied(args, S("max_length"))))

Violates(definition) ==
    \/ IsMalformed(definition)
    \/ /\ ~IsMalformed(definition)
       /\ \/ ~IsKnownType(TagOf(definition))
          \/ UnsupportedArgument(ArgsOf(definition))
          \/ MissingRequiredArgument(TagOf(definition), ArgsOf(definition))
          \/ ArgumentTypeMismatch(TagOf(definition), ArgsOf(definition))

PreconditionFails ==
    app_name \notin DOMAIN project \/ Lower(model_name) \in project[app_name]

Terminated == pc \in {"exit", "crash", "done"}

\* The field lines of a class text: the indented lines that are not blank.
FieldLinesOf(text) == SelectSeq(text, LAMBDA l : Len(l) >= 2 /\ l[1] = "    ")

WellFormed == \A i \in 1..Len(argv) : ~IsMalformed(argv[i])
FirstViolationAt(i) ==
    /\ i \in 1..Len(argv)
    /\ Violates(argv[i])
    /\ \A j \in 1..(i - 1) : ~Violates(argv[j])

\* ------------------------------------------------------------------ C1
\* C1: write_model is reached, and the models file appended to or
\* reformatted, only after check() passed (django.setup() loaded the project
\* and neither precondition fails), render() succeeded (its text was
\* displayed) and the user answered yes; a command that ended otherwise left
\* the file alone.
C1_WriteOnlyAfterCheckRenderConfirm ==
    /\ (pc = "write" \/ models_file # <<>> \/ reformatted) =>
          /\ app_configs = project
          /\ ~PreconditionFails
          /\ shown # <<>>
          /\ confirmation = <<TRUE>>
    /\ (Terminated /\ (PreconditionFails \/ shown = <<>> \/ confirmation # <<TRUE>>)) =>
          /\ models_file = <<>>
          /\ ~reformatted

C1_Witness ==
    /\ pc = "done"
    /\ confirmation = <<TRUE>>
    /\ Len(models_file) = 1
    /\ reformatted

\* ------------------------------------------------------------------ C2
\* C2: a command whose app is unknown or whose model already exists ends by
\* reporting that precondition error, and nothing else, whatever its field
\* definitions are.
C2_PreconditionReportedFirst ==
    (Terminated /\ PreconditionFails) =>
        /\ pc = "exit"
        /\ echoed = <<check(project, generator).msg>>

C4_UnknownFieldTypeBeforeRendering ==
    \A i \in 1..Len(argv) :
        (/\ Terminated
         /\ ~PreconditionFails
         /\ WellFormed
         /\ FirstViolationAt(i)
         /\ ~IsKnownType(TagOf(argv[i]))) =>
            /\ render(registry, generator).exc.type = "UnknownFieldType"
            /\ calls = i - 1

\* ------------------------------------------------------------------ C5
\* C5: for every registered type, when the first violation of a command is
\* a field with a raw argument without "=" that the format table lacks,
\* argument resolution, and so render(), fails with UnsupportedArgument.
C5_BareKeywordUnsupportedArgument ==
    \A i \in 1..Len(argv) :
        (/\ Terminated
         /\ ~PreconditionFails
         /\ WellFormed
         /\ FirstViolationAt(i)
         /\ IsKnownType(TagOf(argv[i]))
         /\ BareUnsupported(ArgsOf(argv[i]))) =>
            /\ parse_arguments(registry[fields[i][2]], fields[i][3]).exc.type
                   = "UnsupportedArgument"
            /\ render(registry, generator).exc.type = "UnsupportedArgument"

C7_MissingRequiredArgumentReported ==
    \A i \in 1..Len(argv) :
        (/\ Terminated
         /\ ~PreconditionFails
         /\ WellFormed
         /\ FirstViolationAt(i)
         /\ MissingRequiredArgument(TagOf(argv[i]), ArgsOf(argv[i]))
         /\ ~UnsupportedArgument(ArgsOf(argv[i]))) =>
            /\ render(registry, generator).exc.type = "MissingRequiredArgument"
            /\ \E m \in 1..Len(render(registry, generator).exc.msg) :
                   render(registry, generator).exc.msg[m] = "to"
            /\ pc = "exit"
            /\ echoed = <<render(registry, generator).exc.msg>>
            /\ exit_code = 1
            /\ shown = <<>>

\* ------------------------------------------------------------------ C8
\* C8: in a command whose class text was rendered and displayed, a raw
\* argument with "=" is held under the text before its first "=" with, as
\* value, all of the text after that first "=" (the last such argument of a
\* key is the one held).
C8_SplitOnceOnFirstEq ==
    \A i \in 1..Len(fields) :
        \A j \in 1..Len(fields[i][3]) :
            (/\ shown # <<>>
             /\ HasEq(fields[i][3][j])
             /\ ~BareUnsupported(fields[i][3])
             /\ \A k \in (j + 1)..Len(fields[i][3]) :
                    KeyOf(fields[i][3][k]) # KeyOf(fields[i][3][j])) =>
                /\ DictHas(collect_arguments(fields[i][3], <<>>).all_arguments,
                           KeyOf(fields[i][3][j]))
                /\ DictGet(collect_arguments(fields[i][3], <<>>).all_arguments,
                           KeyOf(fields[i][3][j]))
                       = StrV(AfterFirstEq(fields[i][3][j]))

\* ------------------------------------------------------------------ C9
\* C9: for a command line of well-formed definitions the parser hands on one
\* triple per definition, in order, duplicates kept; and the field lines of
\* the displayed and of the written class text are, one per definition and in
\* that order, the rendered lines of those definitions.
C9_FieldOrderPreserved ==
    (argv # <<>> /\ WellFormed /\ pc # "start") =>
        /\ Len(fields) = Len(argv)
        /\ \A i \in 1..Len(argv) :
               fields[i] = <<NameOf(argv[i]), TagOf(argv[i]), ArgsOf(argv[i])>>
        /\ shown # <<>> =>
               FieldLinesOf(shown[1])
                   = [i \in 1..Len(argv) |->
                         Indent \o field_render(registry[TagOf(argv[i])],
                                                NameOf(argv[i]),
                                                ArgsOf(argv[i])).text]
        /\ models_file # <<>> =>
               FieldLinesOf(models_file[1])
                   = [i \in 1..Len(argv) |->
                         Indent \o field_render(registry[TagOf(argv[i])],
                                                NameOf(argv[i]),
                                                ArgsOf(argv[i])).text]

C9_Witness ==
    /\ pc = "done"
    /\ models_file # <<>>
    /\ Len(argv) = 2
    /\ TagOf(argv[1]) = S("ForeignKey")
    /\ TagOf(argv[2]) = S("CharField")

====
